---- MODULE Spec2Model ----
(***************************************************************************)
(* MUF monitor: the fetch-with-retry client (app/fetcher.py), the sliding  *)
(* window store (app/store.py) and the refresh coordinator and HTTP read   *)
(* handlers that call them (app/main.py, kept as                          *)
(* backups/app/main_20250902_193535.py).                                   *)
(*                                                                         *)
(* Time is in seconds.  MUF values are in hundredths of a MHz and are even *)
(* numbers, so that (a + b) / 2 is exact.  An Optional[float] is <<>> for  *)
(* None and <<v>> for the value v.                                         *)
(***************************************************************************)
EXTENDS Integers, Sequences, FiniteSets, TLC

VARIABLES
    now,        \* datetime.now(timezone.utc), seconds
    buffer,     \* MUFStore._buffer: the deque of MUFData, left end first
    nextId,     \* history: serial number given to the next MUFData created
    lastAdd,    \* history: the most recent add_data_point call
    prevLatest, \* history: what get_latest returned last, since the last append
    cycle,      \* per caller of update_muf_data: the position of its coroutine
    lastRun,    \* history: the update_muf_data call that finished last
    held,       \* the MUFSeries a reader got from get_series and still holds
    records,    \* the list a caller passes to filter_spanish_stations
    resolved,   \* what that call of filter_spanish_stations came to
    delays,     \* the RETRY_DELAYS a fetch loop is configured with
    budget,     \* the MAX_RETRIES that loop is configured with
    picked      \* the delays that loop has chosen, one per failed attempt

vars == <<now, buffer, nextId, lastAdd, prevLatest, cycle, lastRun,
          held, records, resolved, delays, budget, picked>>

\* What the store and the refresh cycles leave alone.
aside == <<held, records, resolved, delays, budget, picked>>

\* The configuration of a fetch loop and what it has chosen.
retry == <<delays, budget, picked>>

-----------------------------------------------------------------------------
(* Program constants                                                       *)

WINDOW_MINUTES == 60
STALE_THRESHOLD_SECONDS == 600
MAX_RETRIES == 3
RETRY_DELAYS == <<500, 1000, 2000>>   \* [0.5, 1, 2] seconds, in milliseconds

WindowSeconds(window_minutes) == window_minutes * 60

-----------------------------------------------------------------------------
(* Bounds of the model                                                     *)

MaxClock == 7          \* the clock stops after MaxClock steps of ClockStep
MaxAppends == 2        \* MUFData objects created in one behaviour
MaxRecords == 3        \* records in a list passed to filter_spanish_stations
MaxDelays == 3         \* entries of a configured delay list
MaxBudget == 4         \* the largest configured attempt budget

ClockStep == STALE_THRESHOLD_SECONDS
MaxNow == MaxClock * ClockStep

None == << >>
Some(v) == <<v>>
Val(o) == o[1]

\* (roquetes, arenosillo) a caller passes: 10.04 MHz and 10.08 MHz, or absent
MufInputs == {<<None, None>>, <<None, Some(1008)>>, <<Some(1004), Some(1008)>>}

\* timestamps a direct caller of add_data_point passes, as a lag behind now:
\* in the future, now, older than the window
TsLags == {0 - ClockStep, 0, 7 * ClockStep}

\* window_minutes arguments of get_series
Windows == {10, WINDOW_MINUTES, 120}

-----------------------------------------------------------------------------
(* app/models.py                                                           *)

\* id is not a field of the class: it is the identity of the Python object.
MUFData(roquetes, arenosillo, avg, ts, status, id) ==
    [roquetes |-> roquetes, arenosillo |-> arenosillo, avg |-> avg,
     ts |-> ts, status |-> status, id |-> id]

MUFSeries(timestamps, roquetes, arenosillo, avg) ==
    [timestamps |-> timestamps, roquetes |-> roquetes,
     arenosillo |-> arenosillo, avg |-> avg]

\* The five fields of a MUFData, without the identity of the object.
Fields(p) == [roquetes |-> p.roquetes, arenosillo |-> p.arenosillo,
              avg |-> p.avg, ts |-> p.ts, status |-> p.status]

Values(p) == [roquetes |-> p.roquetes, arenosillo |-> p.arenosillo,
              avg |-> p.avg, ts |-> p.ts]

-----------------------------------------------------------------------------
(* app/store.py                                                            *)

\* Average with a fault: one value alone is its own average.
AverageOfPresent(roquetes, arenosillo) ==
    IF roquetes # None /\ arenosillo # None
    THEN Some((Val(roquetes) + Val(arenosillo)) \div 2)
    ELSE IF roquetes # None THEN roquetes ELSE arenosillo

\* store.py 29-32
Average(roquetes, arenosillo) ==
    IF roquetes # None /\ arenosillo # None
    THEN Some((Val(roquetes) + Val(arenosillo)) \div 2)
    ELSE None

\* store.py 35-37
StatusOnAppend(t, timestamp) ==
    IF t - timestamp <= STALE_THRESHOLD_SECONDS THEN "OK" ELSE "STALE"

\* cleanup_old_data with a fault: no eviction; a cutoff of 60 hours.
CleanupNothing(buf, t) == buf

RECURSIVE CleanupHours(_, _)
CleanupHours(buf, t) ==
    IF buf # << >> /\ buf[1].ts < t - WindowSeconds(WINDOW_MINUTES) * 60
    THEN CleanupHours(Tail(buf), t)
    ELSE buf

\* cleanup_old_data with a fault: every point that is too old is removed,
\* wherever it is.
CleanupScan(buf, t) ==
    SelectSeq(buf, LAMBDA point : ~(point.ts < t - WindowSeconds(WINDOW_MINUTES)))

\* store.py 54-61: pop from the left while the leftmost point is too old
RECURSIVE cleanup_old_data(_, _)
cleanup_old_data(buf, t) ==
    IF buf # << >> /\ buf[1].ts < t - WindowSeconds(WINDOW_MINUTES)
    THEN cleanup_old_data(Tail(buf), t)
    ELSE buf

\* add_data_point with a fault: a timestamp earlier than the tail's is
\* refused and the buffer is left as it is.
AppendsInOrderOnly(buf, roquetes, arenosillo, timestamp, t, id) ==
    IF buf # << >> /\ timestamp < buf[Len(buf)].ts
    THEN buf
    ELSE cleanup_old_data(
             Append(buf, MUFData(roquetes, arenosillo, Average(roquetes, arenosillo),
                                 timestamp, StatusOnAppend(t, timestamp), id)), t)

\* add_data_point with a fault: the object is appended before its average
\* and its status are filled in.
AppendsUnfilled(buf, roquetes, arenosillo, timestamp, t, id) ==
    cleanup_old_data(
        Append(buf, MUFData(roquetes, arenosillo, None, timestamp, "", id)), t)

\* store.py 24-52: the method has no await, so it runs in one step; the
\* MUFData is built whole (39-45) before it is appended (47)
add_data_point(buf, roquetes, arenosillo, timestamp, t, id) ==
    cleanup_old_data(
        Append(buf, MUFData(roquetes, arenosillo, Average(roquetes, arenosillo),
                            timestamp, StatusOnAppend(t, timestamp), id)),
        t)

\* LatestStatus with a fault: the status recomputed, the branches swapped.
LatestStatusSwapped(status, t, ts) ==
    IF t - ts > STALE_THRESHOLD_SECONDS THEN "OK" ELSE "STALE"

\* store.py 75-80: the status get_latest leaves in the latest point
LatestStatus(status, t, ts) ==
    IF t - ts > STALE_THRESHOLD_SECONDS THEN "STALE" ELSE status

\* get_latest with a fault: the read evicts what has aged out first.
LatestEvicts(buf, t) ==
    LET kept == cleanup_old_data(buf, t)
    IN  IF kept = << >>
        THEN [buffer |-> kept, ret |-> None]
        ELSE LET n == Len(kept)
                 latest == [kept[n] EXCEPT !.status = LatestStatus(@, t, kept[n].ts)]
             IN  [buffer |-> [kept EXCEPT ![n] = latest], ret |-> Some(latest)]

\* get_latest with a fault: the left end of the deque is read, not the right.
LatestOldest(buf, t) ==
    IF buf = << >>
    THEN [buffer |-> buf, ret |-> None]
    ELSE LET latest == [buf[1] EXCEPT !.status = LatestStatus(@, t, buf[1].ts)]
         IN  [buffer |-> [buf EXCEPT ![1] = latest], ret |-> Some(latest)]

\* store.py 63-82: the buffer after the call, and the object returned
get_latest(buf, t) ==
    IF buf = << >>
    THEN [buffer |-> buf, ret |-> None]
    ELSE LET n == Len(buf)
             latest == [buf[n] EXCEPT !.status = LatestStatus(@, t, buf[n].ts)]
         IN  [buffer |-> [buf EXCEPT ![n] = latest], ret |-> Some(latest)]

\* get_series with a fault: every point of the buffer, whatever its age.
SeriesUnfiltered(buf, window_minutes, t) ==
    MUFSeries([i \in DOMAIN buf |-> buf[i].ts],
              [i \in DOMAIN buf |-> buf[i].roquetes],
              [i \in DOMAIN buf |-> buf[i].arenosillo],
              [i \in DOMAIN buf |-> buf[i].avg])

\* store.py 84-104
get_series(buf, window_minutes, t) ==
    LET cutoff_time == t - WindowSeconds(window_minutes)
        filtered_data == SelectSeq(buf, LAMBDA point : point.ts >= cutoff_time)
    IN  MUFSeries([i \in DOMAIN filtered_data |-> filtered_data[i].ts],
                  [i \in DOMAIN filtered_data |-> filtered_data[i].roquetes],
                  [i \in DOMAIN filtered_data |-> filtered_data[i].arenosillo],
                  [i \in DOMAIN filtered_data |-> filtered_data[i].avg])

\* BufferAfterSeries with a fault: the read evicts what has aged out.
SeriesEvicts(buf, window_minutes, t) == cleanup_old_data(buf, t)

\* store.py 84-104: the deque after get_series; the method reads self._buffer
\* in a list comprehension and assigns, appends and pops nothing
BufferAfterSeries(buf, window_minutes, t) == buf

\* SeriesHeld with a fault: the result is a view of the deque, filtered anew
\* each time it is read.
HeldAsView(returned, buf, t) == get_series(buf, WINDOW_MINUTES, t)

\* store.py 94-104: what a caller that holds the MUFSeries `returned` by
\* get_series() reads in it at time t, when the deque is buf.  The four lists
\* are new lists of the ts and the floats read during the call.
SeriesHeld(returned, buf, t) == returned

\* store.py 106-110
get_window_size(buf) == Len(buf)

-----------------------------------------------------------------------------
(* main: the read handler that rounds what get_latest returned             *)

\* round(x, 1) on hundredths: the nearest multiple of 10, a tie to the even one
Round1(x) ==
    LET lo == (x \div 10) * 10
        r  == x - lo
    IN  IF r < 5 THEN lo
        ELSE IF r > 5 THEN lo + 10
        ELSE IF (lo \div 10) % 2 = 0 THEN lo ELSE lo + 10

RoundOpt(o) == IF o # None THEN Some(Round1(Val(o))) ELSE o

\* main 124-130: the assignments are made to the object get_latest returned,
\* which is the object in the deque
RoundInPlace(p) ==
    [p EXCEPT !.roquetes = RoundOpt(@), !.arenosillo = RoundOpt(@),
              !.avg = RoundOpt(@)]

-----------------------------------------------------------------------------

(* app/fetcher.py: the resolver                                            *)

\* A JSON value read as a number: a number (hundredths), text that float()
\* rejects, or a key that is not there.
Num(v) == [k |-> "num", v |-> v]
BadNum == [k |-> "bad", v |-> 0]
Missing == [k |-> "missing", v |-> 0]

\* station_info.get(key, 0), then float(): raises on text that is no number
FloatRaises(x) == x.k = "bad"
FloatOf(x) == IF x.k = "num" THEN x.v ELSE 0

\* A name is the sequence of its characters; NotText is a name that is no str.
NotText == <<"<null>">>
Lower(ch) ==
    CASE ch = "R" -> "r" [] ch = "E" -> "e" [] ch = "A" -> "a" [] OTHER -> ch
LowerCase(name) == [i \in DOMAIN name |-> Lower(name[i])]
Contains(s, sub) ==
    \E i \in 0..(Len(s) - Len(sub)) : SubSeq(s, i + 1, i + Len(sub)) = sub

Abs(x) == IF x < 0 THEN 0 - x ELSE x

\* NameMatch with a fault: "arenosillo" is looked for first.
NameMatchArenosilloFirst(name_lower) ==
    IF Contains(name_lower, <<"a","r","e","n","o","s","i","l","l","o">>)
    THEN "arenosillo"
    ELSE IF Contains(name_lower, <<"r","o","q","u","e","t","e","s">>)
            \/ Contains(name_lower, <<"e","b","r","e">>)
    THEN "roquetes"
    ELSE "none"

\* fetcher.py 80-85
NameMatch(name_lower) ==
    IF Contains(name_lower, <<"r","o","q","u","e","t","e","s">>)
       \/ Contains(name_lower, <<"e","b","r","e">>)
    THEN "roquetes"
    ELSE IF Contains(name_lower, <<"a","r","e","n","o","s","i","l","l","o">>)
    THEN "arenosillo"
    ELSE "none"

\* GeoMatch with a fault: a difference of exactly 0.5 degrees is accepted.
GeoMatchInclusive(lat, lon) ==
    IF Abs(lat - 4080) <= 50 /\ Abs(lon - 50) <= 50 THEN "roquetes"
    ELSE IF Abs(lat - 3710) <= 50 /\ Abs(lon - (0 - 670)) <= 50 THEN "arenosillo"
    ELSE "none"

\* fetcher.py 92-97, degrees in hundredths
GeoMatch(lat, lon) ==
    IF Abs(lat - 4080) < 50 /\ Abs(lon - 50) < 50 THEN "roquetes"
    ELSE IF Abs(lat - 3710) < 50 /\ Abs(lon - (0 - 670)) < 50 THEN "arenosillo"
    ELSE "none"

\* Classify with a fault: the coordinates are tried first, the name second.
ClassifyGeoFirst(byName, byGeo) == IF byGeo # "none" THEN byGeo ELSE byName

\* fetcher.py 79-97: the name decides; the coordinates are looked at only
\* `if not normalized_name`
Classify(byName, byGeo) == IF byName # "none" THEN byName ELSE byGeo

\* StoreKey with a fault: the entry is stored under the station's code.
StoreKeyCode(normalized_name, station) == station.code

\* fetcher.py 106: the key an entry is stored under
StoreKey(normalized_name, station) == normalized_name

\* Stamp with a fault: the time the upstream record carries.
StampFromSource(station, t) == station.time

\* fetcher.py 104: timestamp = datetime.now(timezone.utc), whatever the record
\* says
Stamp(station, t) == t

\* fetcher.py 66-112, one turn of the loop: "skip", "raise" with the class of
\* the exception, or "put" with the key and the StationData stored under it
ResolveOne(station, t) ==
    IF ~station.isdict THEN [act |-> "skip"]
    ELSE IF station.name = NotText
    THEN [act |-> "raise", exception |-> "AttributeError"]     \* name.lower()
    ELSE LET byName == NameMatch(LowerCase(station.name))
         IN  IF byName = "none"
                /\ (FloatRaises(station.latitude) \/ FloatRaises(station.longitude))
             THEN [act |-> "raise", exception |-> "ValueError"] \* float(), 89-90
             ELSE LET normalized_name ==
                          Classify(byName,
                                   GeoMatch(FloatOf(station.latitude),
                                            FloatOf(station.longitude)))
                  IN  IF normalized_name = "none" THEN [act |-> "skip"]
                      ELSE IF FloatRaises(station.latitude)
                              \/ FloatRaises(station.longitude)
                      THEN [act |-> "raise", exception |-> "ValueError"]  \* 108-109
                      ELSE IF station.mufd.k = "bad"           \* StationData(...)
                      THEN [act |-> "raise", exception |-> "ValidationError"]
                      ELSE [act |-> "put",
                            key |-> StoreKey(normalized_name, station),
                            data |-> [name |-> station.name,
                                      latitude |-> FloatOf(station.latitude),
                                      longitude |-> FloatOf(station.longitude),
                                      mufd |-> IF station.mufd.k = "num"
                                               THEN Some(station.mufd.v) ELSE None,
                                      timestamp |-> Stamp(station, t)]]

\* fetcher.py 63: the empty dict
NoStations == [key \in {} |-> None]

\* Put with a fault: an entry that is there is kept.
PutIfAbsent(dict, key, data) ==
    [k \in DOMAIN dict \cup {key} |-> IF k \in DOMAIN dict THEN dict[k] ELSE data]

\* spanish_stations[key] = data
Put(dict, key, data) ==
    [k \in DOMAIN dict \cup {key} |-> IF k = key THEN data ELSE dict[k]]

\* fetcher.py 59-116: the dict returned, or the exception a record raised
RECURSIVE FilterFrom(_, _, _, _)
FilterFrom(stations_data, i, spanish_stations, t) ==
    IF i > Len(stations_data)
    THEN [raised |-> None, stations |-> spanish_stations]
    ELSE LET r == ResolveOne(stations_data[i], t)
         IN  IF r.act = "raise"
             THEN [raised |-> Some(r.exception), stations |-> NoStations]
             ELSE IF r.act = "skip"
             THEN FilterFrom(stations_data, i + 1, spanish_stations, t)
             ELSE FilterFrom(stations_data, i + 1,
                             Put(spanish_stations, r.key, r.data), t)

filter_spanish_stations(stations_data, t) ==
    FilterFrom(stations_data, 1, NoStations, t)

\* fetcher.py 132-133
MufOf(spanish_stations, key) ==
    IF key \in DOMAIN spanish_stations THEN spanish_stations[key].mufd ELSE None

\* fetcher.py 137-141: the most recent timestamp of the entries, None when
\* there is no entry
LatestTimestamp(spanish_stations) ==
    IF DOMAIN spanish_stations = {} THEN None
    ELSE LET stamps == {spanish_stations[k].timestamp : k \in DOMAIN spanish_stations}
         IN  Some(CHOOSE x \in stamps : \A y \in stamps : y <= x)

\* fetcher.py 143-144: the clock, when no entry gave a timestamp
TimestampOr(latest_timestamp, t) ==
    IF latest_timestamp = None THEN Some(t) ELSE latest_timestamp

\* fetcher.py 119-146: stations_data is what fetch_stations_data returned,
\* <<>> for None; the result is the triple returned, or the exception raised
get_muf_data(stations_data, t) ==
    IF stations_data = None \/ Val(stations_data) = << >>
    THEN [raised |-> None, roquetes |-> None, arenosillo |-> None,
          timestamp |-> None]
    ELSE LET f == filter_spanish_stations(Val(stations_data), t)
         IN  IF f.raised # None
             THEN [raised |-> f.raised, roquetes |-> None, arenosillo |-> None,
                   timestamp |-> None]
             ELSE [raised |-> None,
                   roquetes |-> MufOf(f.stations, "roquetes"),
                   arenosillo |-> MufOf(f.stations, "arenosillo"),
                   timestamp |-> TimestampOr(LatestTimestamp(f.stations), t)]

-----------------------------------------------------------------------------
(* app/fetcher.py: fetch_stations_data                                     *)

\* What one attempt of lines 31-34 meets, and the exception it then raises.
Failures == {"network_error", "timeout", "bad_status", "malformed_body"}

ExceptionOf(failure) ==
    CASE failure = "network_error"  -> "httpx.ConnectError"      \* client.get
      [] failure = "timeout"        -> "httpx.TimeoutException"  \* client.get
      [] failure = "bad_status"     -> "httpx.HTTPStatusError"   \* raise_for_status
      [] failure = "malformed_body" -> "json.JSONDecodeError"    \* response.json

\* Caught with a fault: except httpx.HTTPError
CaughtHttpOnly(exception) ==
    exception \in {"httpx.ConnectError", "httpx.TimeoutException",
                   "httpx.HTTPStatusError"}

\* fetcher.py 35: except Exception
Caught(exception) ==
    exception \in {"httpx.ConnectError", "httpx.TimeoutException",
                   "httpx.HTTPStatusError", "json.JSONDecodeError"}

\* UpdateCatches with a fault: except httpx.HTTPError
UpdateCatchesHttp(exception) ==
    exception \in {"httpx.ConnectError", "httpx.TimeoutException",
                   "httpx.HTTPStatusError"}

\* main 96: except Exception, around the whole of update_muf_data
UpdateCatches(exception) ==
    exception \in {"httpx.ConnectError", "httpx.TimeoutException",
                   "httpx.HTTPStatusError", "json.JSONDecodeError",
                   "AttributeError", "ValueError", "ValidationError"}

Min(a, b) == IF a < b THEN a ELSE b

\* DelayFrom with a fault: past its end the list is read from its start again.
DelayWraps(retry_delays, attempt) ==
    retry_delays[(attempt % Len(retry_delays)) + 1]

\* fetcher.py 36: RETRY_DELAYS[min(attempt, len(RETRY_DELAYS) - 1)], attempt
\* counted from 0 (a Python list is indexed from 0, a sequence from 1)
DelayFrom(retry_delays, attempt) ==
    retry_delays[Min(attempt, Len(retry_delays) - 1) + 1]

\* fetcher.py 36, with the list of line 14
Delay(attempt) == DelayFrom(RETRY_DELAYS, attempt)

\* Sleeps with a fault: the delay is slept after the last attempt too.
SleepsAlways(attempt) == TRUE

\* fetcher.py 38: whether the delay chosen is slept
Sleeps(attempt) == attempt < MAX_RETRIES - 1

-----------------------------------------------------------------------------
(* The bodies the upstream API answers with                                *)

\* A record of the body; time is the instant of the station's measurement,
\* which lies before the process started.
Station(code, name, latitude, longitude, mufd) ==
    [isdict |-> TRUE, code |-> code, name |-> name, latitude |-> latitude,
     longitude |-> longitude, mufd |-> mufd, time |-> 0 - ClockStep]

RoquetesByName == Station("EB040", <<"E","b","r","e">>, Num(0), Num(0), Num(1004))
ArenosilloByGeo ==
    Station("EA036", <<"E","A","0","3","6">>, Num(3705), Num(0 - 680), Num(1008))
ArenosilloByName ==
    Station("EA036", <<"A","r","e","n","o","s","i","l","l","o">>,
            Num(3710), Num(0 - 670), Num(1008))
Elsewhere == Station("RO041", <<"R","o","m","e">>, Num(4180), Num(1250), Num(900))
BadLatitude == Station("RO041", <<"R","o","m","e">>, BadNum, Num(1250), Num(900))

\* Records as the upstream list can hold them: an element that is no dict, a
\* name that is null, a mufd that is no number, no coordinates at all.
NotADict == [Elsewhere EXCEPT !.isdict = FALSE]
NameNotText == Station("XX000", NotText, Num(4080), Num(50), Num(900))
BadMufd == Station("EB040", <<"E","b","r","e">>, Num(4080), Num(50), BadNum)
NoCoordinates ==
    Station("EA036", <<"A","r","e","n","o","s","i","l","l","o">>,
            Missing, Missing, Num(1008))
RoquetesNamed ==
    Station("RQ001", <<"R","o","q","u","e","t","e","s">>,
            Num(4080), Num(50), Num(1012))

\* Named Roquetes, at the coordinates of El Arenosillo; no name, at (0, 0);
\* no name match, exactly 0.5 degrees north of El Arenosillo.
RoquetesAtArenosillo ==
    Station("RQ002", <<"R","o","q","u","e","t","e","s">>,
            Num(3710), Num(0 - 670), Num(1016))
UnnamedAtOrigin == Station("XX001", << >>, Num(0), Num(0), Num(900))
AtEdgeOfArenosillo ==
    Station("EA037", <<"E","A","0","3","7">>, Num(3760), Num(0 - 670), Num(1020))

\* A name with the substrings of both stations, "arenosillo" written first,
\* at the coordinates of El Arenosillo.
BothNames ==
    Station("EA038", <<"A","r","e","n","o","s","i","l","l","o"," ","E","b","r","e">>,
            Num(3710), Num(0 - 670), Num(1024))

RecordKinds == {NotADict, NameNotText, BadLatitude, BadMufd, NoCoordinates,
                RoquetesByName, RoquetesNamed, ArenosilloByGeo,
                ArenosilloByName, Elsewhere, RoquetesAtArenosillo,
                UnnamedAtOrigin, AtEdgeOfArenosillo, BothNames}

RecordLists == UNION {[1..n -> RecordKinds] : n \in 0..MaxRecords}

\* The bodies a refresh cycle is given: an empty list, a list with both
\* stations, a list with a record that raises.
Payloads == { << >>,
              <<Elsewhere, RoquetesByName, ArenosilloByGeo>>,
              <<RoquetesByName, BadLatitude>> }

-----------------------------------------------------------------------------

IsSorted(buf) == \A i, j \in DOMAIN buf : i < j => buf[i].ts <= buf[j].ts

Last(buf) == buf[Len(buf)]

\* inOrder: the call kept the timestamps non-decreasing and was not stamped
\* later than the clock.
NoAdd == [id |-> 0, roquetes |-> None, arenosillo |-> None, ts |-> 0,
          inOrder |-> FALSE]

Callers == {"scheduler", "manual"}

Idle == [pc |-> "idle", attempt |-> 0, chosen |-> << >>, slept |-> << >>]

\* lastRun: how the update_muf_data call that has just ended went: the
\* attempts made, the delays chosen and slept, what the last attempt met,
\* what fetch_stations_data returned (exhausted: None after catching every
\* failure; escaped: it raised), and whether update_muf_data caught and
\* logged an exception, let one out (uncaught), or appended.  It is NoRun
\* again as soon as anything else runs.
NoRun == [caller |-> "none", attempts |-> 0, chosen |-> << >>, slept |-> << >>,
          outcome |-> "none", fetched |-> None, exhausted |-> FALSE, escaped |-> FALSE,
          logged |-> FALSE, uncaught |-> FALSE, appended |-> FALSE]

Init ==
    /\ now = 0
    /\ buffer = << >>
    /\ nextId = 1
    /\ lastAdd = NoAdd
    /\ prevLatest = None
    /\ cycle = [c \in Callers |-> Idle]
    /\ lastRun = NoRun
    /\ held = None
    /\ records = << >>
    /\ resolved = None
    /\ delays = RETRY_DELAYS
    /\ budget = MAX_RETRIES
    /\ picked = << >>

\* HoldsLoop with a fault: the retry delay is slept with time.sleep.
SleepHoldsLoop(pc) == pc = "waiting"

\* fetcher.py 31, 39: whether a coroutine at pc keeps the event loop to
\* itself.  `await client.get(..)` and `await asyncio.sleep(delay)` give the
\* loop back, so nowhere.
HoldsLoop(pc) == FALSE

\* The event loop is free to run a handler.
LoopFree == \A c \in Callers : ~HoldsLoop(cycle[c].pc)

\* The clock moves on.
Advance ==
    /\ now < MaxNow
    /\ now' = now + ClockStep
    /\ lastRun' = NoRun
    /\ UNCHANGED <<buffer, nextId, lastAdd, prevLatest, cycle, aside>>

\* The effect of muf_store.add_data_point(roquetes, arenosillo, timestamp).
Appended(roquetes, arenosillo, timestamp) ==
    /\ buffer' = add_data_point(buffer, roquetes, arenosillo, timestamp, now, nextId)
    /\ nextId' = nextId + 1
    /\ lastAdd' = [id |-> nextId, roquetes |-> roquetes, arenosillo |-> arenosillo,
                   ts |-> timestamp,
                   inOrder |-> /\ IsSorted(buffer)
                               /\ (buffer # << >> => Last(buffer).ts <= timestamp)
                               /\ timestamp <= now]
    /\ prevLatest' = None

\* A direct call of muf_store.add_data_point.
AddDataPoint ==
    \E in \in MufInputs, lag \in TsLags :
        /\ nextId <= MaxAppends
        /\ Appended(in[1], in[2], now - lag)
        /\ UNCHANGED <<now, cycle, lastRun, aside>>

\* muf_store.get_latest(), as read_root and the liquid handlers call it
GetLatest ==
    LET r == get_latest(buffer, now)
    IN  /\ LoopFree
        /\ buffer' = r.buffer
        /\ prevLatest' = IF r.ret = None THEN prevLatest ELSE Some(Fields(Val(r.ret)))
        /\ lastRun' = NoRun
        /\ UNCHANGED <<now, nextId, lastAdd, cycle, aside>>

\* main 124-132: what get_latest_muf does with the object get_latest returned
get_latest_muf(buf, t) ==
    LET r == get_latest(buf, t)
    IN  IF r.ret = None
        THEN [buffer |-> r.buffer, latest |-> None,
              ret |-> [roquetes |-> None, arenosillo |-> None, avg |-> None,
                       ts |-> t, status |-> "STALE"]]
        ELSE LET rounded == RoundInPlace(Val(r.ret))
             IN  [buffer |-> [r.buffer EXCEPT ![Len(buf)] = rounded],
                  latest |-> r.ret, ret |-> Fields(rounded)]

\* main 109-132: GET /api/muf/latest
GetLatestMuf ==
    LET r == get_latest_muf(buffer, now)
    IN  /\ LoopFree
        /\ buffer' = r.buffer
        /\ prevLatest' = IF r.latest = None THEN prevLatest
                         ELSE Some(Fields(Val(r.latest)))
        /\ lastRun' = NoRun
        /\ UNCHANGED <<now, nextId, lastAdd, cycle, aside>>

\* muf_store.get_series(window), main 135-156: the call returns
\* get_series(buffer, window, now)
GetSeries ==
    \E window \in Windows :
        LET series == get_series(buffer, window, now)
        IN  /\ LoopFree
            /\ buffer' = BufferAfterSeries(buffer, window, now)
            /\ UNCHANGED <<now, nextId, lastAdd, prevLatest, cycle, lastRun, aside>>

\* muf_store.get_window_size(), main 240-249: the call returns
\* get_window_size(buffer) and changes nothing
GetWindowSize ==
    LET data_points == get_window_size(buffer)
    IN  LoopFree /\ UNCHANGED vars

\* store.py 112-116
Clear ==
    /\ buffer' = << >>
    /\ prevLatest' = None
    /\ lastAdd' = NoAdd
    /\ UNCHANGED <<now, nextId, cycle, lastRun, aside>>

\* main 135-143, window left at its default: a reader calls get_series() and
\* keeps the result.
HoldSeries ==
    /\ LoopFree
    /\ held = None
    /\ held' = Some(get_series(buffer, WINDOW_MINUTES, now))
    /\ buffer' = BufferAfterSeries(buffer, WINDOW_MINUTES, now)
    /\ UNCHANGED <<now, nextId, lastAdd, prevLatest, cycle, lastRun,
                   records, resolved, retry>>

\* main 90-93: add_data_point as update_muf_data calls it when no station
\* carried a timestamp, stamped with the clock.
AddDataPointNow ==
    \E in \in MufInputs :
        /\ nextId <= MaxAppends
        /\ Appended(in[1], in[2], now)
        /\ UNCHANGED <<now, cycle, lastRun, aside>>

SnapshotNext ==
    \/ Advance
    \/ AddDataPointNow
    \/ GetLatestMuf
    \/ HoldSeries

\* The store and one reader that keeps a series while the store is written.
SnapshotSpec == Init /\ [][SnapshotNext]_vars

StoreNext ==
    \/ Advance
    \/ AddDataPoint
    \/ GetLatest
    \/ GetLatestMuf
    \/ GetSeries
    \/ GetWindowSize
    \/ Clear

\* The store under every sequence of calls of its public methods and of the
\* read handlers.
StoreSpec == Init /\ [][StoreNext]_vars

AppendNext ==
    \/ Advance
    \/ AddDataPoint

\* The store under add_data_point calls alone, with timestamps in any order.
AppendSpec == Init /\ [][AppendNext]_vars

-----------------------------------------------------------------------------
(* main 82-97: update_muf_data, one coroutine per caller.  It is suspended *)
(* only in client.get (pc "attempting") and in asyncio.sleep (pc           *)
(* "waiting"); what runs between two suspensions is one step.              *)

InFlight == {c \in Callers : cycle[c].pc # "idle"}

\* main 53-65 (the interval job, the call at startup), main 263-271 (POST
\* /api/muf/refresh): update_muf_data runs up to its first client.get
Start(c) ==
    /\ LoopFree
    /\ cycle[c].pc = "idle"
    /\ nextId + Cardinality(InFlight) <= MaxAppends
    /\ cycle' = [cycle EXCEPT ![c] = [Idle EXCEPT !.pc = "attempting"]]
    /\ lastRun' = NoRun
    /\ UNCHANGED <<now, buffer, nextId, lastAdd, prevLatest, aside>>

\* fetch_stations_data has returned `fetched` (escaped: it has raised instead):
\* get_muf_data 119-146 and update_muf_data 88-97 run to the end.
Finish(c, attempts, chosen, slept, outcome, fetched, escaped) ==
    LET m == get_muf_data(fetched, now)
        raised == IF escaped THEN Some(ExceptionOf(outcome)) ELSE m.raised
        logged == raised # None /\ UpdateCatches(Val(raised))      \* main 96-97
        timestamp == IF m.timestamp = None THEN now ELSE Val(m.timestamp)
    IN  /\ IF raised # None
           THEN UNCHANGED <<buffer, nextId, lastAdd, prevLatest>>
           ELSE Appended(m.roquetes, m.arenosillo, timestamp)
        /\ cycle' = [cycle EXCEPT ![c] = Idle]
        /\ lastRun' = [caller |-> c, attempts |-> attempts, chosen |-> chosen,
                       slept |-> slept, outcome |-> outcome, fetched |-> fetched,
                       exhausted |-> ~escaped /\ fetched = None,
                       escaped |-> escaped, logged |-> logged,
                       uncaught |-> raised # None /\ ~logged,
                       appended |-> raised = None]
        /\ UNCHANGED <<now, aside>>

\* fetcher.py 31-34: the attempt succeeds and the parsed body is returned
AttemptOk(c) ==
    \E body \in Payloads :
        /\ cycle[c].pc = "attempting"
        /\ Finish(c, cycle[c].attempt + 1, cycle[c].chosen, cycle[c].slept,
                  "ok", Some(body), FALSE)

\* fetcher.py 35-42: the attempt raises
AttemptFails(c) ==
    \E failure \in Failures :
        LET attempt == cycle[c].attempt
            delay == Delay(attempt)
            chosen == Append(cycle[c].chosen, delay)
        IN  /\ cycle[c].pc = "attempting"
            /\ IF ~Caught(ExceptionOf(failure))
               THEN Finish(c, attempt + 1, cycle[c].chosen, cycle[c].slept,
                           failure, None, TRUE)
               ELSE IF Sleeps(attempt)
               THEN /\ cycle' = [cycle EXCEPT ![c] =
                                    [pc |-> "waiting", attempt |-> attempt,
                                     chosen |-> chosen,
                                     slept |-> Append(cycle[c].slept, delay)]]
                    /\ lastRun' = NoRun
                    /\ UNCHANGED <<now, buffer, nextId, lastAdd, prevLatest, aside>>
               ELSE Finish(c, attempt + 1, chosen, cycle[c].slept,
                           failure, None, FALSE)

\* fetcher.py 30, 39: asyncio.sleep returns and the loop goes on; a loop that
\* has run out returns None
SleepDone(c) ==
    /\ cycle[c].pc = "waiting"
    /\ IF cycle[c].attempt + 1 < MAX_RETRIES
       THEN /\ cycle' = [cycle EXCEPT ![c].pc = "attempting",
                                      ![c].attempt = @ + 1]
            /\ lastRun' = NoRun
            /\ UNCHANGED <<now, buffer, nextId, lastAdd, prevLatest, aside>>
       ELSE Finish(c, cycle[c].attempt + 1, cycle[c].chosen, cycle[c].slept,
                   "none", None, FALSE)

Next ==
    \/ Advance
    \/ \E c \in Callers : Start(c)
    \/ \E c \in Callers : AttemptOk(c)
    \/ \E c \in Callers : AttemptFails(c)
    \/ \E c \in Callers : SleepDone(c)
    \/ GetLatest
    \/ GetLatestMuf
    \/ GetSeries
    \/ GetWindowSize

\* The application: the refresh cycles and the read handlers.
Spec == Init /\ [][Next]_vars

-----------------------------------------------------------------------------
(* The interval job alone, for what holds in the long run: the timer starts *)
(* update_muf_data when no run of it is in flight (APScheduler lets one     *)
(* instance of a job run at a time).                                       *)

\* main 93: the step of a run in which add_data_point is called
CycleAppends ==
    /\ \/ AttemptOk("scheduler")
       \/ AttemptFails("scheduler")
       \/ SleepDone("scheduler")
    /\ nextId' = nextId + 1

RefreshNext ==
    \/ Advance
    \/ Start("scheduler")
    \/ AttemptOk("scheduler")
    \/ AttemptFails("scheduler")
    \/ SleepDone("scheduler")
    \/ GetLatest
    \/ GetSeries

\* The timer keeps firing, every client.get ends (by a response or by its
\* timeout), every asyncio.sleep returns, and runs keep appending: a run
\* that can append again and again does append.
RefreshFairness ==
    /\ WF_vars(Start("scheduler"))
    /\ WF_vars(AttemptOk("scheduler") \/ AttemptFails("scheduler"))
    /\ WF_vars(SleepDone("scheduler"))
    /\ SF_vars(CycleAppends)

RefreshSpec == Init /\ [][RefreshNext]_vars /\ RefreshFairness

\* Every client.get ends, by a response or by its 5-second timeout
\* (fetcher.py 29, 32), and every asyncio.sleep returns (fetcher.py 39);
\* nothing is asked of the timer or of what the attempts meet.
FetchFairness ==
    /\ WF_vars(AttemptOk("scheduler") \/ AttemptFails("scheduler"))
    /\ WF_vars(SleepDone("scheduler"))

FetchSpec == Init /\ [][RefreshNext]_vars /\ FetchFairness

-----------------------------------------------------------------------------
(* The store when the periodic trigger alone appends: the run at startup    *)
(* and then one run every five minutes, each run taken as one step that     *)
(* appends one point stamped with the current time.                        *)

\* main 56: IntervalTrigger(minutes=5), in seconds
TickSeconds == 5 * 60

\* What a run appends: nothing for both stations (a fetch that failed or an
\* empty body) or the two values of a body.
TickInputs == {<<None, None>>, <<Some(1004), Some(1008)>>}

\* main 54-59: the interval has passed since the last run appended
TickPasses ==
    /\ lastAdd # NoAdd
    /\ lastAdd.ts = now
    /\ now + TickSeconds <= MaxNow
    /\ now' = now + TickSeconds
    /\ UNCHANGED <<buffer, nextId, lastAdd, prevLatest, cycle, lastRun, aside>>

\* main 65 (the run at startup), main 82-93 (the run of a tick): the one
\* add_data_point of the run
TickAppends ==
    \E in \in TickInputs :
        /\ lastAdd = NoAdd \/ lastAdd.ts < now
        /\ Appended(in[1], in[2], now)
        /\ UNCHANGED <<now, cycle, lastRun, aside>>

TickNext ==
    \/ TickPasses
    \/ TickAppends

TickSpec == Init /\ [][TickNext]_vars

-----------------------------------------------------------------------------
(* fetcher.py 30-36 on its own: the loop of fetch_stations_data with any    *)
(* attempt budget and any non-empty delay list, every attempt failing.      *)

\* The delay lists: non-empty, of up to MaxDelays of the delays of line 14.
DelayLists ==
    UNION {[1..n -> {RETRY_DELAYS[i] : i \in DOMAIN RETRY_DELAYS}] : n \in 1..MaxDelays}

DelayInit ==
    /\ now = 0
    /\ buffer = << >>
    /\ nextId = 1
    /\ lastAdd = NoAdd
    /\ prevLatest = None
    /\ cycle = [c \in Callers |-> Idle]
    /\ lastRun = NoRun
    /\ held = None
    /\ records = << >>
    /\ resolved = None
    /\ delays \in DelayLists
    /\ budget \in 1..MaxBudget
    /\ picked = << >>

\* fetcher.py 30, 35-36: attempt number Len(picked), counted from 0, fails and
\* its delay is chosen
ChooseDelay ==
    LET attempt == Len(picked)
    IN  /\ attempt < budget
        /\ picked' = Append(picked, DelayFrom(delays, attempt))
        /\ UNCHANGED <<now, buffer, nextId, lastAdd, prevLatest, cycle, lastRun,
                       held, records, resolved, delays, budget>>

DelayNext == ChooseDelay

DelaySpec == DelayInit /\ [][DelayNext]_vars

-----------------------------------------------------------------------------
(* fetcher.py 59-116 on its own: filter_spanish_stations is called once,   *)
(* with any list of up to MaxRecords records.                              *)

ResolverInit ==
    /\ now = 0
    /\ buffer = << >>
    /\ nextId = 1
    /\ lastAdd = NoAdd
    /\ prevLatest = None
    /\ cycle = [c \in Callers |-> Idle]
    /\ lastRun = NoRun
    /\ held = None
    /\ records \in RecordLists
    /\ resolved = None
    /\ delays = RETRY_DELAYS
    /\ budget = MAX_RETRIES
    /\ picked = << >>

\* resolved: the dict returned, or the exception that left the function
FilterSpanishStations ==
    /\ resolved = None
    /\ resolved' = Some(filter_spanish_stations(records, now))
    /\ UNCHANGED <<now, buffer, nextId, lastAdd, prevLatest, cycle, lastRun,
                   held, records, retry>>

ResolverNext == FilterSpanishStations

ResolverSpec == ResolverInit /\ [][ResolverNext]_vars

-----------------------------------------------------------------------------
(* The claims                                                              *)

\* C1: when every attempt of a cycle's fetch fails, update_muf_data does not
\* call add_data_point: the step that ends such a cycle leaves the buffer as
\* it was and records no point.
C1_FailedFetchSkipsAppend ==
    [][lastRun'.exhausted => buffer' = buffer /\ nextId' = nextId]_vars

\* C2, as stated: with every attempt failing, fetch_stations_data makes exactly
\* 3 attempts and sleeps 0.5 s, 1 s and 2 s before it returns failure.
C2_ThreeDelaysSlept ==
    lastRun.exhausted =>
        /\ lastRun.attempts = 3
        /\ lastRun.slept = <<500, 1000, 2000>>

\* C2, amended: with every attempt failing, fetch_stations_data makes exactly
\* 3 attempts, sleeps 0.5 s after the first and 1 s after the second, and
\* returns failure right after the third: the 2 s delay is chosen (and logged)
\* but not slept.
C2_RetryBudget ==
    lastRun.exhausted =>
        /\ lastRun.attempts = 3
        /\ lastRun.chosen = <<500, 1000, 2000>>
        /\ lastRun.slept = <<500, 1000>>

C2_Witness ==
    /\ lastRun.exhausted
    /\ lastRun.attempts = MAX_RETRIES
    /\ Len(lastRun.slept) = MAX_RETRIES - 1

\* C3: fetch_stations_data returns the parsed body only from an attempt that
\* succeeded; when the last attempt fails, whatever the failure, it has made
\* all its attempts and returns None, and no exception leaves it.
C3_FetchNeverRaises ==
    lastRun.caller # "none" =>
        /\ ~lastRun.escaped
        /\ lastRun.fetched # None => lastRun.outcome = "ok"
        /\ lastRun.outcome \in Failures =>
               /\ lastRun.fetched = None
               /\ lastRun.attempts = MAX_RETRIES

C3_Witness ==
    /\ lastRun.outcome = "malformed_body"
    /\ lastRun.fetched = None
    /\ cycle[lastRun.caller].pc = "idle"

\* A step in which a mutating operation of the store completes:
\* add_data_point (a MUFData is created) or clear.
StoreMutated == nextId' # nextId \/ (buffer # << >> /\ buffer' = << >>)

WithinWindow(buf, t) ==
    \A i \in DOMAIN buf : buf[i].ts >= t - WindowSeconds(WINDOW_MINUTES)

\* C4, as stated: right after add_data_point or clear, no point of the buffer
\* is older than now - 60 minutes.
C4_FreshAfterMutation ==
    [][StoreMutated => WithinWindow(buffer', now')]_vars

\* C4, amended: right after add_data_point or clear, no point of the buffer is
\* older than now - 60 minutes, provided the buffer is in non-decreasing
\* timestamp order (as it is when every add_data_point call was stamped no
\* earlier than the call before it).
C4_FreshAfterOrderedMutation ==
    [][StoreMutated /\ IsSorted(buffer') => WithinWindow(buffer', now')]_vars

\* an append has evicted the point before it and kept its own
C4_Witness ==
    /\ lastAdd.id = 2
    /\ IsSorted(buffer)
    /\ Len(buffer) = 1
    /\ buffer[1].id = 2
    /\ buffer[1].ts = now

\* The indices of the points get_series() must return, and the place of each
\* among them.
Retained(buf, t) ==
    {i \in DOMAIN buf : buf[i].ts >= t - WindowSeconds(WINDOW_MINUTES)}

Rank(kept, i) == Cardinality({j \in kept : j <= i})

\* C5: when the timestamps appended are non-decreasing, get_series() returns
\* the points in the order in which they were appended, which is their
\* chronological order, and none older than now - 60 minutes.
C5_SeriesChronological ==
    IsSorted(buffer) =>
        LET series == get_series(buffer, WINDOW_MINUTES, now)
            kept == Retained(buffer, now)
            n == Len(series.timestamps)
        IN  /\ n = Cardinality(kept)
            /\ Len(series.roquetes) = n /\ Len(series.arenosillo) = n
            /\ Len(series.avg) = n
            /\ \A i, j \in DOMAIN buffer : i < j => buffer[i].id < buffer[j].id
            /\ \A i \in kept :
                   /\ series.timestamps[Rank(kept, i)] = buffer[i].ts
                   /\ series.roquetes[Rank(kept, i)] = buffer[i].roquetes
                   /\ series.arenosillo[Rank(kept, i)] = buffer[i].arenosillo
                   /\ series.avg[Rank(kept, i)] = buffer[i].avg
            /\ \A k, l \in 1..n : k < l => series.timestamps[k] <= series.timestamps[l]
            /\ \A k \in 1..n :
                   series.timestamps[k] >= now - WindowSeconds(WINDOW_MINUTES)

\* two points appended in order, the older one aged out of the window since
C5_Witness ==
    /\ Len(buffer) = 2
    /\ IsSorted(buffer)
    /\ buffer[1].ts < buffer[2].ts
    /\ get_series(buffer, WINDOW_MINUTES, now).timestamps = <<buffer[2].ts>>

\* The points stored before the most recent add_data_point(.., T) that are
\* older than T - 60 minutes.
OlderThanLastAdd ==
    {i \in DOMAIN buffer : /\ buffer[i].id < lastAdd.id
                           /\ buffer[i].ts < lastAdd.ts - WindowSeconds(WINDOW_MINUTES)}

Without(buf, gone) ==
    LET keep == DOMAIN buf \ gone
    IN  [k \in 1..Cardinality(keep) |->
            buf[CHOOSE i \in keep : Rank(keep, i) = k]]

EvictedFromReads ==
    /\ get_window_size(buffer) = Cardinality(DOMAIN buffer \ OlderThanLastAdd)
    /\ get_series(buffer, WINDOW_MINUTES, now)
           = get_series(Without(buffer, OlderThanLastAdd), WINDOW_MINUTES, now)

\* C6, as stated: after add_data_point with timestamp T, no point stored
\* before it with a timestamp < T - 60 minutes is returned by get_series() or
\* counted by get_window_size().
C6_EvictedAfterAppend ==
    lastAdd.id # 0 => EvictedFromReads

\* C6, amended: the same, provided T is not later than the clock at the call
\* and the buffer was in non-decreasing timestamp order with no timestamp
\* later than T.
C6_EvictedAfterOrderedAppend ==
    lastAdd.inOrder => OlderThanLastAdd = {} /\ EvictedFromReads

\* an in-order append has evicted the older point, and time has moved on
C6_Witness ==
    /\ lastAdd.inOrder
    /\ lastAdd.id = 2
    /\ Len(buffer) = 1
    /\ buffer[1].id = 2
    /\ now > lastAdd.ts

\* C7: every stored point has avg defined exactly when both station values
\* are, and then avg = (roquetes + arenosillo) / 2.
C7_AverageInvariant ==
    \A i \in DOMAIN buffer :
        LET p == buffer[i]
        IN  /\ p.avg # None <=> (p.roquetes # None /\ p.arenosillo # None)
            /\ p.avg # None => 2 * Val(p.avg) = Val(p.roquetes) + Val(p.arenosillo)

\* C8: the status of a stored point never goes from STALE back to OK.
C8_StaleIsFinal ==
    [][\A i \in DOMAIN buffer, j \in DOMAIN buffer' :
           buffer[i].id = buffer'[j].id /\ buffer[i].status = "STALE"
               => buffer'[j].status = "STALE"]_vars

\* a point that was appended fresh is STALE in the buffer
C8_Witness ==
    /\ buffer # << >>
    /\ Last(buffer).status = "STALE"
    /\ Last(buffer).id = lastAdd.id
    /\ lastAdd.inOrder
    /\ prevLatest # None

\* C9: two get_latest() calls with no add_data_point between them return
\* points with the same station values, average and timestamp.
C9_LatestRepeatable ==
    LET again == get_latest(buffer, now).ret
    IN  prevLatest # None /\ again # None
            => Values(Val(prevLatest)) = Values(Val(again))

\* C10: get_latest() returns the point appended with timestamp t0 with status
\* OK while now - t0 <= 600 s and STALE once now - t0 > 600 s, with the
\* station values and the average it was appended with.
C10_FreshThenStale ==
    buffer # << >> /\ Last(buffer).id = lastAdd.id =>
        LET latest == Val(get_latest(buffer, now).ret)
        IN  /\ latest.status = IF now - lastAdd.ts <= 600 THEN "OK" ELSE "STALE"
            /\ latest.ts = lastAdd.ts
            /\ latest.roquetes = lastAdd.roquetes
            /\ latest.arenosillo = lastAdd.arenosillo
            /\ latest.roquetes # None /\ latest.arenosillo # None
                   => 2 * Val(latest.avg) = Val(lastAdd.roquetes) + Val(lastAdd.arenosillo)

\* C11: get_latest() returns None exactly when the buffer is empty; otherwise
\* it returns the MUFData object that the most recent add_data_point call
\* created, with the timestamp that call was given.
C11_LatestIsLastAppended ==
    LET ret == get_latest(buffer, now).ret
    IN  /\ ret = None <=> buffer = << >>
        /\ ret = None <=> get_window_size(buffer) = 0
        /\ ret # None =>
               /\ Val(ret).id = nextId - 1
               /\ Val(ret).id = lastAdd.id
               /\ Val(ret).ts = lastAdd.ts

\* the point appended last is not the newest of the two stored
C11_Witness ==
    /\ Len(buffer) = 2
    /\ buffer[1].ts > buffer[2].ts
    /\ Val(get_latest(buffer, now).ret).id = 2
    /\ prevLatest # None

\* C12: for every window wider than 60 minutes, get_series(window) returns
\* no point older than now - 60 minutes, however long ago the last append was.
C12_WideWindowWithinRetention ==
    \A window \in Windows :
        window > WINDOW_MINUTES =>
            LET series == get_series(buffer, window, now)
            IN  \A k \in DOMAIN series.timestamps :
                    series.timestamps[k] >= now - WindowSeconds(WINDOW_MINUTES)

\* C13: get_series(window) leaves the buffer as it was, for every window:
\* the same points in the same order, with the same values and statuses.
C13_SeriesLeavesBuffer ==
    [][GetSeries => buffer' = buffer]_vars

\* points that have aged out of the windows read are still stored
C13_Witness ==
    /\ Len(buffer) = 2
    /\ buffer[1].ts < now - WindowSeconds(WINDOW_MINUTES)
    /\ buffer[2].status = "OK"
    /\ Len(get_series(buffer, WINDOW_MINUTES, now).timestamps) = 1
    /\ Len(get_series(buffer, 10, now).timestamps) = 0

\* A MUFData with its five fields set as add_data_point sets them.
Whole(p, t) ==
    /\ p.roquetes = None \/ Val(p.roquetes) \in Nat
    /\ p.arenosillo = None \/ Val(p.arenosillo) \in Nat
    /\ p.avg # None <=> (p.roquetes # None /\ p.arenosillo # None)
    /\ p.ts \in 0..t
    /\ p.status \in {"OK", "STALE"}

\* C14: whatever the refresh cycles in flight are doing, the points a reader
\* can observe (the buffer, what get_latest returns, the rows of get_series)
\* have all five fields set, and they are points of add_data_point calls that
\* have completed: a new point is wholly visible or not in the buffer.
C14_NoPartialPoint ==
    /\ \A i \in DOMAIN buffer : Whole(buffer[i], now) /\ buffer[i].id \in 1..(nextId - 1)
    /\ \A i, j \in DOMAIN buffer : i < j => buffer[i].id < buffer[j].id
    /\ LET ret == get_latest(buffer, now).ret
       IN  ret # None => Whole(Val(ret), now)
    /\ \A window \in Windows :
           LET series == get_series(buffer, window, now)
               n == Len(series.timestamps)
           IN  /\ Len(series.roquetes) = n /\ Len(series.arenosillo) = n
               /\ Len(series.avg) = n
               /\ \A k \in 1..n :
                      series.avg[k] # None <=>
                          (series.roquetes[k] # None /\ series.arenosillo[k] # None)

\* a reader has read the one stored point, and the cycle that will append
\* the next one is in flight, in its second retry delay
C14_Witness ==
    /\ cycle["scheduler"].pc = "waiting"
    /\ cycle["scheduler"].attempt = 1
    /\ Len(buffer) = 1
    /\ prevLatest # None

\* C15: the MUFSeries get_series returned is a snapshot: its lists are the
\* points of the buffer at the instant of the call that are within the window,
\* and whatever is appended, evicted or rounded afterwards, the holder of the
\* result reads the same lists in it.
C15_SeriesIsSnapshot ==
    [][/\ held' # None => SeriesHeld(Val(held'), buffer', now') = Val(held')
       /\ held # None => held' = held
       /\ held = None /\ held' # None =>
              LET returned == Val(held')
                  kept == Retained(buffer, now)
              IN  /\ Len(returned.timestamps) = Cardinality(kept)
                  /\ \A i \in kept :
                         /\ returned.timestamps[Rank(kept, i)] = buffer[i].ts
                         /\ returned.roquetes[Rank(kept, i)] = buffer[i].roquetes
                         /\ returned.arenosillo[Rank(kept, i)] = buffer[i].arenosillo
                         /\ returned.avg[Rank(kept, i)] = buffer[i].avg]_vars

\* the result holds a point with the values it had at the call; since then
\* that point has been evicted by a later add_data_point
C15_Witness ==
    /\ held # None
    /\ Val(held).timestamps = <<0>>
    /\ Val(held).roquetes = <<Some(1004)>>
    /\ Len(buffer) = 1
    /\ buffer[1].id = 2
    /\ buffer[1].ts > WindowSeconds(WINDOW_MINUTES)

\* C16: while a refresh cycle is suspended in an HTTP attempt or in a retry
\* delay, a reader is not blocked: get_latest and get_series (and the handlers
\* that call them) can run, each to completion in one step.
C16_ReadersNotBlocked ==
    (\E c \in Callers : cycle[c].pc \in {"attempting", "waiting"}) =>
        /\ ENABLED GetLatest
        /\ ENABLED GetLatestMuf
        /\ ENABLED GetSeries
        /\ ENABLED GetWindowSize

\* one cycle is in its second retry delay, the other in an HTTP attempt
C16_Witness ==
    /\ cycle["manual"].pc = "waiting"
    /\ cycle["manual"].attempt = 1
    /\ cycle["scheduler"].pc = "attempting"

Ids(buf) == {buf[i].id : i \in DOMAIN buf}

\* C17, as stated: the interval timer is the only writer: every point is
\* appended by a cycle the timer started, and at most one cycle is in flight.
C17_TimerIsOnlyWriter ==
    /\ Cardinality(InFlight) <= 1
    /\ lastRun.appended => lastRun.caller = "scheduler"

\* C17, amended: update_muf_data is the only writer: a step that creates a
\* point or changes which points are stored is the last step of one
\* update_muf_data cycle, which makes one add_data_point call; the cycle is
\* the interval timer's or one called directly (at startup, by POST
\* /api/muf/refresh), and cycles of both kinds can be in flight together.
C17_CyclesAreOnlyWriters ==
    [][nextId' # nextId \/ Ids(buffer') # Ids(buffer) =>
           /\ nextId' = nextId + 1
           /\ Ids(buffer') \subseteq Ids(buffer) \cup {nextId}
           /\ \E c \in Callers :
                  /\ cycle[c].pc # "idle"
                  /\ cycle'[c].pc = "idle"
                  /\ \A d \in Callers \ {c} : cycle'[d] = cycle[d]
                  /\ lastRun'.caller = c
                  /\ lastRun'.appended]_vars

\* a cycle called directly has appended while the timer's cycle is in flight
C17_Witness ==
    /\ lastRun.caller = "manual"
    /\ lastRun.appended
    /\ cycle["scheduler"].pc = "waiting"
    /\ buffer # << >>

\* The update_muf_data call that ends in this step met a failure: an attempt
\* of its fetch failed, or an exception was raised inside it.
FailingCycleEnds ==
    /\ lastRun'.caller # "none"
    /\ \/ lastRun'.attempts > 1
       \/ lastRun'.exhausted
       \/ lastRun'.logged
       \/ lastRun'.uncaught

\* C18: no failure inside a refresh cycle leaves update_muf_data as an
\* exception or damages the buffer: the step that ends a failing cycle leaves
\* the buffer as it was, or as one add_data_point call leaves it (the points
\* it had, less those evicted from the left, and one whole new point at the
\* right), and the caller's coroutine is back where a later cycle starts.
C18_FailureIsContained ==
    [][FailingCycleEnds =>
           /\ ~lastRun'.uncaught
           /\ cycle'[lastRun'.caller] = Idle
           /\ \/ buffer' = buffer /\ nextId' = nextId
              \/ /\ nextId' = nextId + 1
                 /\ buffer' # << >>
                 /\ Last(buffer').id = nextId
                 /\ Whole(Last(buffer'), now')
                 /\ \E k \in 0..Len(buffer) :
                        buffer' = Append(SubSeq(buffer, k + 1, Len(buffer)),
                                         Last(buffer'))]_vars

\* a record of the body raised in the resolver: the exception was caught and
\* logged, and the stored point is as it was
C18_Witness ==
    /\ lastRun.outcome = "ok"
    /\ lastRun.logged
    /\ ~lastRun.appended
    /\ Len(buffer) = 1
    /\ cycle[lastRun.caller].pc = "idle"

\* A record that is no dict, or whose name, latitude, longitude or mufd is
\* not of the type the resolver reads it as.
Malformed(station) ==
    \/ ~station.isdict
    \/ station.name = NotText
    \/ station.latitude.k = "bad"
    \/ station.longitude.k = "bad"
    \/ station.mufd.k = "bad"

\* C19: a malformed record raises no exception out of filter_spanish_stations:
\* the call returns what it returns for the list without its malformed
\* records.
C19_MalformedSkipped ==
    resolved # None =>
        /\ Val(resolved).raised = None
        /\ Val(resolved).stations =
               filter_spanish_stations(
                   SelectSeq(records, LAMBDA station : ~Malformed(station)),
                   now).stations

\* C20: the dict filter_spanish_stations returns has 0, 1 or 2 entries, and
\* its keys are among "roquetes" and "arenosillo", whatever the list and
\* however many of its records match.
C20_AtMostTwoStations ==
    resolved # None /\ Val(resolved).raised = None =>
        LET stations == Val(resolved).stations
        IN  /\ DOMAIN stations \subseteq {"roquetes", "arenosillo"}
            /\ Cardinality(DOMAIN stations) \in {0, 1, 2}
            /\ \A key \in DOMAIN stations :
                   \E i \in DOMAIN records : stations[key].name = records[i].name

\* three records that match, two of them the same station: two entries
C20_Witness ==
    /\ resolved # None
    /\ records = <<RoquetesByName, ArenosilloByGeo, RoquetesNamed>>
    /\ DOMAIN Val(resolved).stations = {"roquetes", "arenosillo"}
    /\ Val(resolved).stations["roquetes"].mufd = Some(1012)

\* The record is a dict whose name is text that, lower-cased, contains
\* "roquetes" or "ebre".
NamedRoquetes(station) ==
    /\ station.isdict
    /\ station.name # NotText
    /\ \/ Contains(LowerCase(station.name), <<"r","o","q","u","e","t","e","s">>)
       \/ Contains(LowerCase(station.name), <<"e","b","r","e">>)

\* The resolver stores the record at place i of the list under key.
StoredAt(i, key) ==
    LET r == ResolveOne(records[i], now)
    IN  r.act = "put" /\ r.key = key

\* C21: a record whose lower-cased name contains "roquetes" or "ebre"
\* resolves to roquetes whatever coordinates it carries, also coordinates
\* within the tolerance of El Arenosillo: it is never stored as arenosillo,
\* and the list's last record stored as roquetes is the roquetes entry.
C21_NameBeforeGeography ==
    resolved # None =>
        \A i \in DOMAIN records :
            NamedRoquetes(records[i]) /\ ~Malformed(records[i]) =>
                /\ StoredAt(i, "roquetes")
                /\ Val(resolved).raised = None =>
                       /\ "roquetes" \in DOMAIN Val(resolved).stations
                       /\ (\A j \in DOMAIN records : j > i => ~StoredAt(j, "roquetes"))
                              => /\ Val(resolved).stations["roquetes"].name
                                        = records[i].name
                                 /\ Val(resolved).stations["roquetes"].mufd
                                        = IF records[i].mufd.k = "num"
                                          THEN Some(records[i].mufd.v) ELSE None
                       /\ (\A j \in DOMAIN records : ~StoredAt(j, "arenosillo"))
                              => "arenosillo" \notin DOMAIN Val(resolved).stations

\* the one record is named Roquetes and lies at El Arenosillo's coordinates
C21_Witness ==
    /\ resolved # None
    /\ records = <<RoquetesAtArenosillo>>
    /\ GeoMatch(FloatOf(records[1].latitude), FloatOf(records[1].longitude))
           = "arenosillo"
    /\ DOMAIN Val(resolved).stations = {"roquetes"}

\* The record is a dict with a text name that matches neither station and
\* with fields of the types the resolver reads.
Unnamed(station) ==
    /\ ~Malformed(station)
    /\ ~NamedRoquetes(station)
    /\ ~Contains(LowerCase(station.name),
                 <<"a","r","e","n","o","s","i","l","l","o">>)

\* The centroids of the spec, in hundredths of a degree: (40.8, 0.5) and
\* (37.1, -6.7).
Centroid(key) ==
    IF key = "roquetes" THEN [lat |-> 4080, lon |-> 50]
    ELSE [lat |-> 3710, lon |-> 0 - 670]

DeltaLat(station, key) == Abs(FloatOf(station.latitude) - Centroid(key).lat)
DeltaLon(station, key) == Abs(FloatOf(station.longitude) - Centroid(key).lon)

\* C22, as stated: a record with no name match is classified as a station if
\* and only if |dlat| and |dlon| to its centroid are both at most 0.5
\* degrees, and a record that matches neither station is discarded.
C22_WithinTolerance ==
    resolved # None =>
        \A i \in DOMAIN records :
            Unnamed(records[i]) =>
                /\ \A key \in {"roquetes", "arenosillo"} :
                       StoredAt(i, key) <=>
                           /\ DeltaLat(records[i], key) <= 50
                           /\ DeltaLon(records[i], key) <= 50
                /\ ResolveOne(records[i], now).act \in {"put", "skip"}

\* C22, amended: the same with both differences strictly less than 0.5
\* degrees: (37.05, -6.8) is arenosillo, (0, 0) and (37.6, -6.7) are no
\* station, and a record that matches neither test is discarded without error.
C22_StrictlyWithinTolerance ==
    resolved # None =>
        \A i \in DOMAIN records :
            Unnamed(records[i]) =>
                /\ \A key \in {"roquetes", "arenosillo"} :
                       StoredAt(i, key) <=>
                           /\ DeltaLat(records[i], key) < 50
                           /\ DeltaLon(records[i], key) < 50
                /\ ResolveOne(records[i], now).act \in {"put", "skip"}
                /\ (\A key \in {"roquetes", "arenosillo"} : ~StoredAt(i, key))
                       => ResolveOne(records[i], now).act = "skip"

\* (0, 0), (37.6, -6.7) and (37.05, -6.8), none with a name that matches:
\* only the last is a station
C22_Witness ==
    /\ resolved # None
    /\ records = <<UnnamedAtOrigin, AtEdgeOfArenosillo, ArenosilloByGeo>>
    /\ Val(resolved).raised = None
    /\ DOMAIN Val(resolved).stations = {"arenosillo"}
    /\ Val(resolved).stations["arenosillo"].mufd = Some(1008)

\* The places of the list whose record the resolver stores under key.
PlacesOf(key) == {i \in DOMAIN records : StoredAt(i, key)}

\* C23: when several records of one list classify to the same station, the
\* entry returned for that station is the one of the last of them in list
\* order; a station has an entry exactly when some record classifies to it.
C23_LastRecordWins ==
    resolved # None /\ Val(resolved).raised = None =>
        \A key \in {"roquetes", "arenosillo"} :
            /\ key \in DOMAIN Val(resolved).stations <=> PlacesOf(key) # {}
            /\ PlacesOf(key) # {} =>
                   LET last == CHOOSE i \in PlacesOf(key) :
                                   \A j \in PlacesOf(key) : j <= i
                   IN  Val(resolved).stations[key]
                           = ResolveOne(records[last], now).data

\* three records are Roquetes by name, each with its own mufd: the entry is
\* the third
C23_Witness ==
    /\ resolved # None
    /\ records = <<RoquetesNamed, RoquetesAtArenosillo, RoquetesByName>>
    /\ Cardinality(PlacesOf("roquetes")) = 3
    /\ Val(resolved).stations["roquetes"].mufd = Some(1004)
    /\ Val(resolved).stations["roquetes"].name = <<"E","b","r","e">>

\* C24: after a point is created no operation changes its station values,
\* its average or its timestamp: a point that is in the buffer before and
\* after a step differs at most in its status.
C24_OnlyStatusChanges ==
    [][\A i \in DOMAIN buffer, j \in DOMAIN buffer' :
           buffer[i].id = buffer'[j].id =>
               /\ buffer'[j].roquetes = buffer[i].roquetes
               /\ buffer'[j].arenosillo = buffer[i].arenosillo
               /\ buffer'[j].avg = buffer[i].avg
               /\ buffer'[j].ts = buffer[i].ts]_vars

\* The times the records of a body carry.
SourceTimes(body) == {body[i].time : i \in {j \in DOMAIN body : body[j].isdict}}

\* C25: the point a refresh cycle has just appended is stamped with the clock
\* reading of that cycle, and with no time that a record of the body carries.
C25_StampedAtAcquisition ==
    lastRun.appended =>
        /\ buffer # << >>
        /\ Last(buffer).id = lastAdd.id
        /\ Last(buffer).ts = now
        /\ lastAdd.ts = now
        /\ lastRun.fetched # None =>
               Last(buffer).ts \notin SourceTimes(Val(lastRun.fetched))

\* a cycle that ends after the clock has moved appends the two stations of a
\* body whose records carry an earlier time
C25_Witness ==
    /\ lastRun.appended
    /\ lastRun.fetched = Some(<<Elsewhere, RoquetesByName, ArenosilloByGeo>>)
    /\ SourceTimes(Val(lastRun.fetched)) = {0 - ClockStep}
    /\ now >= 2 * ClockStep
    /\ Last(buffer).ts = now
    /\ Last(buffer).roquetes = Some(1004)
    /\ Last(buffer).arenosillo = Some(1008)

\* The last append put a point with no roquetes value and an arenosillo value
\* into a store that holds nothing else, its timestamp is within the 60
\* minutes before now, and no read of the latest point has been made since.
OneStationAbsent ==
    /\ lastAdd # NoAdd
    /\ lastAdd.roquetes = None
    /\ lastAdd.arenosillo # None
    /\ Len(buffer) = 1
    /\ buffer[1].id = lastAdd.id
    /\ prevLatest = None
    /\ lastAdd.ts >= now - WindowSeconds(WINDOW_MINUTES)

\* C26: after add_data_point(None, b, t0) on a store that then holds that
\* point alone, t0 recent, get_latest() returns a point whose avg is
\* undefined and get_series(60) holds exactly that point, its roquetes entry
\* undefined and its arenosillo entry b.
C26_OneStationAbsent ==
    OneStationAbsent =>
        LET latest == get_latest(buffer, now).ret
            series == get_series(buffer, WINDOW_MINUTES, now)
        IN  /\ latest # None
            /\ Val(latest).avg = None
            /\ Val(latest).id = lastAdd.id
            /\ series.timestamps = <<lastAdd.ts>>
            /\ series.roquetes = <<None>>
            /\ series.arenosillo = <<lastAdd.arenosillo>>
            /\ series.avg = <<None>>

\* the append was made on the empty store, at the current time
C26_Witness ==
    /\ OneStationAbsent
    /\ nextId = 2
    /\ lastAdd.ts = now
    /\ lastAdd.arenosillo = Some(1008)
    /\ get_latest(buffer, now).ret # None
    /\ Val(get_latest(buffer, now).ret).status = "OK"
    /\ Len(get_series(buffer, WINDOW_MINUTES, now).timestamps) = 1

\* A point older than the retention window is in the buffer.
HasAged ==
    \E i \in DOMAIN buffer : buffer[i].ts < now - WindowSeconds(WINDOW_MINUTES)

\* What get_latest and get_series, called now, return of the point id.
Returned(id) ==
    \/ LET r == get_latest(buffer, now).ret IN r # None /\ Val(r).id = id
    \/ \E window \in Windows, i \in DOMAIN buffer :
           /\ buffer[i].id = id
           /\ buffer[i].ts >= now - WindowSeconds(window)
           /\ Len(get_series(buffer, window, now).timestamps) >= 1

\* A run that appends is still to come.
AppendsToCome == nextId <= MaxAppends

\* C27: as long as refresh cycles keep appending points stamped with the
\* current time, a point older than 60 minutes is eventually removed from
\* the buffer (the buffer comes to hold no such point), and a point that has
\* been removed is never again returned by get_latest or get_series.
C27_EvictedForGood ==
    /\ (HasAged /\ AppendsToCome) ~> ~HasAged
    /\ \A id \in 1..MaxAppends :
           [](id < nextId /\ id \notin Ids(buffer)
                  => [](id \notin Ids(buffer) /\ ~Returned(id)))

\* a point of the first clock reading has aged out and was evicted by the
\* append of a later run, which is now the only point
C27_Witness ==
    /\ now = MaxNow
    /\ nextId = 3
    /\ Len(buffer) = 1
    /\ buffer[1].id = 2
    /\ buffer[1].ts = now
    /\ 1 \notin Ids(buffer)
    /\ ~HasAged

\* The ticks that fit in the retention window.
TicksInWindow == WindowSeconds(WINDOW_MINUTES) \div TickSeconds

\* C28: when only the periodic trigger appends, one point per 5-minute tick
\* stamped with the current time, the buffer never holds more points than
\* the ticks that fit in the 60-minute retention window, plus one.
C28_BufferBounded == Len(buffer) <= TicksInWindow + 1

\* the buffer is full: the run of this tick has evicted the oldest point and
\* the buffer holds one point per tick of the last 60 minutes
C28_Witness ==
    /\ Len(buffer) = TicksInWindow + 1
    /\ nextId > TicksInWindow + 2
    /\ buffer[1].id > 1
    /\ buffer[1].ts = now - WindowSeconds(WINDOW_MINUTES)
    /\ Last(buffer).ts = now

\* One step of the fetch_stations_data call of caller c, as the state machine
\* allows it: Idle to Attempting(1); Attempting(n) to Waiting, when n is not
\* the last attempt, or to the end (success, or failure once n is the last
\* attempt); Waiting to Attempting(n + 1).
FetchStep(c) ==
    LET before == cycle[c]
        after == cycle'[c]
    IN  \/ after = before
        \/ /\ before.pc = "idle"
           /\ after.pc = "attempting"
           /\ after.attempt = 0
        \/ /\ before.pc = "attempting"
           /\ after.pc = "waiting"
           /\ after.attempt = before.attempt
           /\ before.attempt + 1 < MAX_RETRIES
           /\ Len(after.slept) = Len(before.slept) + 1
        \/ /\ before.pc = "waiting"
           /\ after.pc = "attempting"
           /\ after.attempt = before.attempt + 1
           /\ after.slept = before.slept
        \/ /\ before.pc = "attempting"
           /\ after.pc = "idle"
           /\ lastRun'.caller = c
           /\ lastRun'.attempts = before.attempt + 1
           /\ lastRun'.slept = before.slept
           /\ \/ lastRun'.outcome = "ok" /\ lastRun'.fetched # None
              \/ /\ lastRun'.outcome \in Failures
                 /\ lastRun'.exhausted
                 /\ lastRun'.attempts = MAX_RETRIES

\* C29: a fetch_stations_data call follows Idle, Attempting(1), Waiting,
\* Attempting(2), Waiting, Attempting(3), then Success or ExhaustedFailure:
\* it makes at most 3 attempts, it ends at the first attempt that succeeds
\* with no further attempt or delay, and a Waiting state is left only for
\* another attempt (no delay follows the last attempt).
C29_FetchStateMachine ==
    [][\A c \in Callers :
           /\ FetchStep(c)
           /\ cycle[c].attempt < MAX_RETRIES
           /\ cycle'[c].attempt < MAX_RETRIES]_vars

\* a call has ended in success at its third attempt, after two delays
C29_Witness ==
    /\ lastRun.outcome = "ok"
    /\ lastRun.fetched # None
    /\ lastRun.attempts = MAX_RETRIES
    /\ Len(lastRun.slept) = MAX_RETRIES - 1
    /\ cycle[lastRun.caller].pc = "idle"

\* The fetch_stations_data call of the interval job is under way.
Fetching == cycle["scheduler"].pc # "idle"

\* The call has just ended, in Success (the body of an attempt that
\* succeeded) or in ExhaustedFailure (None after the last attempt failed).
FetchEnded ==
    /\ cycle["scheduler"].pc = "idle"
    /\ lastRun.caller = "scheduler"
    /\ ~lastRun.escaped
    /\ lastRun.attempts <= MAX_RETRIES
    /\ \/ lastRun.outcome = "ok" /\ lastRun.fetched # None
       \/ lastRun.exhausted /\ lastRun.fetched = None

\* C30: provided each HTTP attempt and each delay completes, every
\* fetch_stations_data call ends, in Success or in ExhaustedFailure, after at
\* most 3 attempts: it does not retry for ever.
C30_FetchTerminates == Fetching ~> FetchEnded

\* a call that met three failures has ended in ExhaustedFailure, some time
\* after the process started
C30_Witness ==
    /\ FetchEnded
    /\ lastRun.exhausted
    /\ lastRun.attempts = MAX_RETRIES
    /\ lastRun.slept = <<RETRY_DELAYS[1], RETRY_DELAYS[2]>>
    /\ now > 0

\* C31: the delay chosen after failed attempt number n, counted from 1, is
\* the n-th entry of the configured delay list, and the last entry of the
\* list for every n greater than the length of the list, whatever the
\* attempt budget and the non-empty delay list.
C31_DelayOfAttempt ==
    \A n \in DOMAIN picked :
        picked[n] = IF n <= Len(delays) THEN delays[n] ELSE delays[Len(delays)]

\* a budget of four attempts with a list of two different delays: the third
\* and the fourth failure take the second delay
C31_Witness ==
    /\ budget = 4
    /\ Len(delays) = 2
    /\ delays[1] # delays[2]
    /\ Len(picked) = 4
    /\ picked[3] = delays[2]
    /\ picked[4] = delays[2]

\* The name of the record, lower-cased, contains a substring of roquetes and
\* the substring of arenosillo.
NamedBoth(station) ==
    /\ NamedRoquetes(station)
    /\ Contains(LowerCase(station.name), <<"a","r","e","n","o","s","i","l","l","o">>)

\* Both differences to the centroid of key are below 0.5 degrees.
Near(station, key) ==
    DeltaLat(station, key) < 50 /\ DeltaLon(station, key) < 50

\* What a call returned, without the clock readings it stamped.
Unstamped(result) ==
    [raised |-> result.raised,
     stations |-> [key \in DOMAIN result.stations |->
                       [name |-> result.stations[key].name,
                        latitude |-> result.stations[key].latitude,
                        longitude |-> result.stations[key].longitude,
                        mufd |-> result.stations[key].mufd]]]

WithNewPoint ==
    Append(buffer, MUFData(lastAdd'.roquetes, lastAdd'.arenosillo,
                           Average(lastAdd'.roquetes, lastAdd'.arenosillo),
                           lastAdd'.ts, StatusOnAppend(now, lastAdd'.ts), nextId))

\* buf is seq without its first k points, all of them older than the cutoff,
\* and the point after them, if there is one, is not.
TrimmedAt(buf, seq, k, cutoff) ==
    /\ buf = SubSeq(seq, k + 1, Len(seq))
    /\ \A i \in 1..k : seq[i].ts < cutoff
    /\ k < Len(seq) => ~(seq[k + 1].ts < cutoff)

\* C33: eviction in add_data_point is a prefix trim: the buffer after the
\* call is the old buffer followed by the new point without a run of points
\* at its front, each older than now - 60 minutes, that ends at the first
\* point that is not; the points that stay are unchanged and in their order.
C33_PrefixTrim ==
    [][nextId' # nextId =>
           \E k \in 0..(Len(buffer) + 1) :
               TrimmedAt(buffer', WithNewPoint, k,
                         now - WindowSeconds(WINDOW_MINUTES))]_vars

\* the trim has stopped at a point within the window: the point behind it,
\* appended with a timestamp older than the window, has stayed
C33_Witness ==
    /\ nextId = 3
    /\ Len(buffer) = 2
    /\ lastAdd.id = 2
    /\ buffer[2].id = 2
    /\ buffer[1].ts >= now - WindowSeconds(WINDOW_MINUTES)
    /\ buffer[2].ts < now - WindowSeconds(WINDOW_MINUTES)
    /\ lastAdd.ts = buffer[2].ts

\* The step is an add_data_point call whose timestamp is earlier than the
\* timestamp of the tail it finds.
OutOfOrderAppend ==
    /\ nextId' # nextId
    /\ buffer # << >>
    /\ lastAdd'.ts < Last(buffer).ts

\* C34: add_data_point makes no ordering check: the call puts its point at
\* the tail whatever its timestamp, also one earlier than the tail's; the
\* buffer stays sorted by timestamp when the call is in order, and is left
\* unsorted by a call that is not and whose tail stays in the buffer.
C34_NoOrderingCheck ==
    [][nextId' # nextId =>
           /\ buffer' = << >> \/ Last(buffer').id = nextId
           /\ buffer' # << >> => Last(buffer').ts = lastAdd'.ts
           /\ IsSorted(buffer) /\ ~OutOfOrderAppend => IsSorted(buffer')
           /\ OutOfOrderAppend /\ Len(buffer') >= 2 => ~IsSorted(buffer')]_vars

\* a point stamped at the clock has been put behind a point stamped in the
\* future: the buffer is not sorted
C34_Witness ==
    /\ Len(buffer) = 2
    /\ lastAdd.id = 2
    /\ buffer[2].id = 2
    /\ buffer[1].ts > now
    /\ buffer[2].ts = now
    /\ ~lastAdd.inOrder
    /\ ~IsSorted(buffer)

\* C35: also when refresh cycles overlap, the timestamps in the buffer are
\* non-decreasing: a cycle appends its point, stamped with the clock reading
\* of the step in which it appends, behind points that are no later.
C35_OverlapKeepsOrder ==
    /\ IsSorted(buffer)
    /\ \A i \in DOMAIN buffer : buffer[i].ts <= now
    /\ lastRun.appended => lastAdd.inOrder

\* two cycles overlap: the cycle of the interval job has appended, after
\* three attempts and some time after the process started, while the cycle
\* of a manual refresh, started before that, is still in its second attempt
C35_Witness ==
    /\ lastRun.caller = "scheduler"
    /\ lastRun.appended
    /\ lastRun.attempts = MAX_RETRIES
    /\ cycle["manual"].pc = "attempting"
    /\ cycle["manual"].attempt = 1
    /\ Len(buffer) = 1
    /\ now > 0
    /\ buffer[1].ts = now

\* The number of points get_series() returns at time t, window left at its
\* default.
SeriesSize(buf, t) == Len(get_series(buf, WINDOW_MINUTES, t).timestamps)

====
